---------------------------- MODULE Spec2Model ----------------------------
(***************************************************************************)
(* Video_to_Transcripts: the transcript task registry                      *)
(* (TranscriptionService), the exporter and file store (StorageService),   *)
(* the URL/ID extractor (app/core/security.py) and the HTTP routes that    *)
(* drive them (app/api/routes/transcripts.py).                             *)
(*                                                                         *)
(* Python strings that the code takes apart (URLs, file names) are         *)
(* sequences of one-character strings, so that `in`, split, replace and    *)
(* len are computed as the code computes them.  Optional fields hold the   *)
(* value None.  Request handlers run one at a time (the handlers are       *)
(* `async def` functions that call the synchronous services, so the event  *)
(* loop runs each to completion); the clock may advance at any point.      *)
(***************************************************************************)
EXTENDS Naturals, Integers, Sequences, FiniteSets, TLC

VARIABLES
    tasks,      \* TranscriptionService._tasks: task_id -> TranscriptResponse
    disk,       \* the files in StorageService.output_dir: a set of paths
    now,        \* datetime.utcnow(), in clock ticks
    nextId,     \* the number of task ids uuid.uuid4() has handed out
    pc,         \* position inside process_transcript ("idle" between calls)
    cur,        \* the frame of the process_transcript call in progress
    requested,  \* history: task_id -> format of the last process request
    issued,     \* history: task ids the HTTP API has returned to clients
    fetches,    \* history: the number of fetch_transcript calls made so far
    op,         \* history: the last call that returned, and what it returned
    mtime,      \* the output directory as cleanup_old_files and the file
                \* routes see it: file name -> st_mtime, in seconds
    utcoffset,  \* the UTC offset of the server's time zone, in seconds
    rate_requests, \* RateLimiter._requests: client_id -> times of its requests
    client_log, \* history: client -> times of the requests it was allowed
                \* that are inside the rate limiter's window
    debug       \* settings.debug

vars == <<tasks, disk, now, nextId, pc, cur, requested, issued, fetches, op,
          mtime, utcoffset, rate_requests, client_log, debug>>

\* What the task registry and the exporter neither read nor write.
envVars == <<mtime, utcoffset, rate_requests, client_log, debug>>

\* Optional[T]: None, or Some(x)
None == <<>>
Some(x) == <<x>>

----------------------------------------------------------------------------
(* Bounds of the model. *)

\* task ids handed out in one run
MaxTasks == 2
\* fetch_transcript calls in one run
MaxFetches == 2
\* last clock tick
MaxTime == 2
\* clock ticks per second of the "%Y%m%d_%H%M%S" file-name timestamp
TicksPerSecond == 2

----------------------------------------------------------------------------
(* Python str operations on sequences of characters. *)

\* s[i:] (0-based i)
Drop(s, i) == SubSeq(s, i + 1, Len(s))

\* s[:i]
Take(s, i) == SubSeq(s, 1, i)

\* s.startswith(sub)
StartsWith(s, sub) == Len(sub) <= Len(s) /\ Take(s, Len(sub)) = sub

\* s.find(sub): the 0-based index of the first occurrence, -1 when absent
RECURSIVE FindFrom(_, _, _)
FindFrom(s, sub, i) ==
    IF i + Len(sub) > Len(s) THEN -1
    ELSE IF SubSeq(s, i + 1, i + Len(sub)) = sub THEN i
    ELSE FindFrom(s, sub, i + 1)

Find(s, sub) == FindFrom(s, sub, 0)

\* sub in s
Contains(s, sub) == Find(s, sub) >= 0

\* s.split(sep), sep non-empty: the list of the pieces
RECURSIVE Split(_, _)
Split(s, sep) ==
    LET i == Find(s, sep)
    IN  IF i < 0 THEN <<s>>
        ELSE <<Take(s, i)>> \o Split(Drop(s, i + Len(sep)), sep)

UpperCase == <<"A","B","C","D","E","F","G","H","I","J","K","L","M",
               "N","O","P","Q","R","S","T","U","V","W","X","Y","Z">>
LowerCase == <<"a","b","c","d","e","f","g","h","i","j","k","l","m",
               "n","o","p","q","r","s","t","u","v","w","x","y","z">>

LowerChar(c) ==
    IF \E i \in 1..26 : UpperCase[i] = c
    THEN LowerCase[CHOOSE i \in 1..26 : UpperCase[i] = c]
    ELSE c

\* s.lower()
Lower(s) == [i \in 1..Len(s) |-> LowerChar(s[i])]

\* s.strip(): leading and trailing blanks removed
RECURSIVE LStrip(_)
LStrip(s) == IF s # <<>> /\ s[1] = " " THEN LStrip(Tail(s)) ELSE s

RECURSIVE RStrip(_)
RStrip(s) ==
    IF s # <<>> /\ s[Len(s)] = " " THEN RStrip(Take(s, Len(s) - 1)) ELSE s

Strip(s) == LStrip(RStrip(s))

----------------------------------------------------------------------------
(* app/core/security.py *)

youtube_domains ==
    { <<"y","o","u","t","u","b","e",".","c","o","m">>,
      <<"w","w","w",".","y","o","u","t","u","b","e",".","c","o","m">>,
      <<"y","o","u","t","u",".","b","e">>,
      <<"m",".","y","o","u","t","u","b","e",".","c","o","m">> }

validate_youtube_url(url) ==
    \E domain \in youtube_domains : Contains(Lower(url), domain)

M_youtu_be == <<"y","o","u","t","u",".","b","e","/">>
M_watch_v == <<"w","a","t","c","h","?","v","=">>
M_v == <<"v","=">>
M_embed == <<"e","m","b","e","d","/">>

\* length a video id must have
VideoIdLen == 11

\* What a call does: it returns a value or raises an exception, whose str()
\* is kept ("<status_code>: <detail>" for an HTTPException).
Return(v) == [raised |-> FALSE, value |-> Some(v), error |-> ""]
Raise(e) == [raised |-> TRUE, value |-> None, error |-> e]

\* The if/elif chain of extract_video_id: the segment taken, None when no
\* marker is in the url.
extract_segment(url) ==
    IF Contains(url, M_youtu_be)
    THEN Some(Split(Split(Split(url, M_youtu_be)[2], <<"?">>)[1], <<"&">>)[1])
    ELSE IF Contains(url, M_watch_v)
    THEN Some(Split(Split(url, M_v)[2], <<"&">>)[1])
    ELSE IF Contains(url, M_embed)
    THEN Some(Split(Split(url, M_embed)[2], <<"?">>)[1])
    ELSE None

extract_video_id(url) ==
    IF ~validate_youtube_url(url)
    THEN Raise("400: Invalid YouTube URL provided")
    ELSE LET seg == extract_segment(url)
         IN  IF seg = None
             THEN Raise("400: Unable to extract video ID from URL")
             ELSE IF seg[1] = <<>> \/ Len(seg[1]) # VideoIdLen
             THEN Raise("400: Invalid YouTube video ID")
             ELSE Return(seg[1])

dangerous_chars == {"<", ">", ":", "\"", "/", "\\", "|", "?", "*"}

\* longest file name sanitize_filename keeps
MaxFilenameLen == 100

sanitize_filename(filename) ==
    LET replaced == [i \in 1..Len(filename) |->
                        IF filename[i] \in dangerous_chars THEN "_"
                        ELSE filename[i]]
        capped == IF Len(replaced) > MaxFilenameLen
                  THEN Take(replaced, MaxFilenameLen) ELSE replaced
    IN  Strip(capped)

----------------------------------------------------------------------------
(* The inputs of the model. *)

Https == <<"h","t","t","p","s",":","/","/">>
HostWww == <<"w","w","w",".","y","o","u","t","u","b","e",".","c","o","m","/">>
VideoA == <<"d","Q","w","4","w","9","W","g","X","c","Q">>

\* https://www.youtube.com/watch?v=dQw4w9WgXcQ
UrlWatch == Https \o HostWww \o M_watch_v \o VideoA
\* https://youtu.be/dQw4w9WgXcQ?t=1 : the same video by its short link
UrlShort == Https \o M_youtu_be \o VideoA \o <<"?","t","=","1">>
\* https://www.youtube.com/watch?v=short : the id is not 11 characters
UrlBadId == Https \o HostWww \o M_watch_v \o <<"s","h","o","r","t">>
\* https://www.youtube.com/ : no marker of a video id
UrlNoId == Https \o HostWww

\* TranscriptRequest.url: HttpUrl values that pass the model's validator
\* (transcript_models.py:58-64: the url names a YouTube domain).
Urls == {UrlWatch, UrlBadId, UrlNoId}

Formats == {"txt", "pdf", "json", "both"}

\* TranscriptRequest.custom_filename: absent
CustomNames == {None}

\* TranscriptRequest (languages and preserve_formatting are handed to the
\* captions API unread, and its answer is any of ApiOutcomes whatever they are)
Requests == [url : Urls, format : Formats, custom_filename : CustomNames]

\* What YouTubeTranscriptApi.fetch answers: a transcript (its snippets' text
\* as lists of words), or one of the errors fetch_transcript tells apart.
ApiTranscripts ==
    { [snippets |-> << [text |-> <<"Hello">>, start |-> 0, duration |-> 1],
                       [text |-> <<"big", "world.">>, start |-> 1, duration |-> 2] >>,
       language_code |-> "en", is_generated |-> FALSE] }

ApiErrors == {"TranscriptsDisabled", "NoTranscriptFound", "Exception"}

\* How writing one export file can end: written, refused before the file
\* exists (open fails), or failed with the file already created.
WriteOutcomes == {"ok", "fail_no_file", "fail_partial_file"}

TaskIds == 1..MaxTasks

----------------------------------------------------------------------------
(* app/services/video_service.py *)

get_video_info(url) ==
    IF ~validate_youtube_url(url) THEN Raise("400: Invalid YouTube URL")
    ELSE LET r == extract_video_id(url)
         IN  IF r.raised THEN r
             ELSE Return([video_id |-> r.value[1], url |-> url])

\* get_video_info over the urls of the model
VideoInfoOf == [url \in Urls |-> get_video_info(url)]

RECURSIVE FullText(_)
FullText(snippets) ==
    IF snippets = <<>> THEN <<>>
    ELSE snippets[1].text \o FullText(Tail(snippets))

Max(S) == CHOOSE x \in S : \A y \in S : y <= x

\* The dict fetch_transcript builds from the API's transcript.
fetch_result(t) ==
    [snippets |-> t.snippets,
     full_text |-> FullText(t.snippets),
     language |-> t.language_code,
     is_generated |-> t.is_generated,
     word_count |-> Len(FullText(t.snippets)),
     duration_seconds |->
         IF t.snippets # <<>>
         THEN Max({t.snippets[i].start + t.snippets[i].duration :
                      i \in 1..Len(t.snippets)})
         ELSE 0]

\* str() of the HTTPException fetch_transcript raises for an API error.
fetch_error(e) ==
    CASE e = "TranscriptsDisabled" ->
             "404: Transcripts are disabled for this video"
      [] e = "NoTranscriptFound" ->
             "404: No transcript found for languages: en, en-US, en-GB"
      [] OTHER -> "500: Failed to fetch transcript: connection reset"

\* The except clause of fetch_transcript an exception of the API ends in.
fetch_error_kind(e) ==
    IF e \in {"TranscriptsDisabled", "NoTranscriptFound"} THEN "fetch"
    ELSE "internal"

----------------------------------------------------------------------------
(* app/services/storage_service.py *)

\* The dict of the registry with key k set to v (a new key goes last, as in
\* a Python dict: task ids are handed out in increasing order).
Put(f, k, v) == [x \in DOMAIN f \cup {k} |-> IF x = k THEN v ELSE f[x]]

\* The dict without the keys of S.
Without(f, S) == [x \in DOMAIN f \ S |-> f[x]]

T_transcript == <<"_","t","r","a","n","s","c","r","i","p","t">>

\* save_transcript, lines 38-42: the base of the file names
base_filename(transcript_data, custom_filename) ==
    IF custom_filename # None /\ custom_filename[1] # <<>>
    THEN sanitize_filename(custom_filename[1])
    ELSE transcript_data.video_info.video_id \o T_transcript

\* datetime.utcnow().strftime("%Y%m%d_%H%M%S"): the clock cut to the second
strftime(t) == t \div TicksPerSecond

\* The file f"{base_filename}_{timestamp}.{ext}" of the output directory.
FilePath(base, timestamp, ext) == [base |-> base, ts |-> timestamp, ext |-> ext]

\* FileOutput (size_bytes, the length of what was written, is left out)
FileOutput(path) == [filename |-> path, format |-> path.ext, file_path |-> path]

\* A faulty variant of WantsPdf, for testing the properties: "both" forgotten
WantsPdf_OnlyPdf(format) == format = "pdf"

\* save_transcript, lines 49, 53 and 57: the formats a request is written in
WantsTxt(format) == format \in {"txt", "both"}
WantsPdf(format) == format \in {"pdf", "both"}
WantsJson(format) == format = "json"

Wants(format, ext) ==
    CASE ext = "txt" -> WantsTxt(format)
      [] ext = "pdf" -> WantsPdf(format)
      [] ext = "json" -> WantsJson(format)

WriteOrder == <<"txt", "pdf", "json">>

\* The next of the three `if format ...` blocks of save_transcript that
\* writes a file, after block number i; "done" when it reaches `return files`.
RECURSIVE NextWrite(_, _)
NextWrite(format, i) ==
    IF i >= Len(WriteOrder) THEN "done"
    ELSE IF Wants(format, WriteOrder[i + 1]) THEN WriteOrder[i + 1]
    ELSE NextWrite(format, i + 1)

WriteIndex(ext) == CHOOSE i \in 1..Len(WriteOrder) : WriteOrder[i] = ext

\* The paths of a list of FileOutput.
PathsOf(files) == {files[i].file_path : i \in 1..Len(files)}

\* _save_as_txt, _save_as_pdf, _save_as_json: open(file_path, 'w') and write
write_file(d, path) == d \cup {path}

\* A faulty variant of delete_files, for testing the properties: the files are left alone
delete_files_Nothing(d, paths, unlink_fails) == d

\* delete_file over the files of a task: every file that exists is unlinked,
\* but for those whose unlink raises (swallowed, lines 243-245).
delete_files(d, paths, unlink_fails) == d \ (paths \ unlink_fails)

\* save_transcript, lines 64-72, when writing `path` fails: the file being
\* written stays when it was already created, and os.remove takes away the
\* files written before it, but for those it fails on (`except: pass`).
cleanup_partial(d, written, remove_fails, path, outcome) ==
    LET left == IF outcome = "fail_partial_file" THEN write_file(d, path) ELSE d
    IN  left \ (written \ remove_fails)

----------------------------------------------------------------------------
(* app/services/transcription_service.py *)

\* TranscriptResponse leaves out processing_time_seconds, the seconds between
\* the start and the end of process_transcript, which nothing reads.

\* A faulty variant of PendingResponse, for testing the properties: the record is stamped as finished
PendingResponse_Stamped(task_id, video_info, t) ==
    [task_id |-> task_id,
     status |-> "pending",
     video_info |-> video_info,
     transcript_data |-> None,
     files |-> <<>>,
     error_message |-> None,
     created_at |-> t,
     completed_at |-> Some(t)]

\* create_transcript_task, lines 40-45: the initial TranscriptResponse
PendingResponse(task_id, video_info, t) ==
    [task_id |-> task_id,
     status |-> "pending",
     video_info |-> video_info,
     transcript_data |-> None,
     files |-> <<>>,
     error_message |-> None,
     created_at |-> t,
     completed_at |-> None]

\* process_transcript, line 63
ProcessingResponse(response) == [response EXCEPT !.status = "processing"]

\* process_transcript, lines 74-82
TranscriptData(video_info, result) ==
    [video_info |-> video_info,
     snippets |-> result.snippets,
     full_text |-> result.full_text,
     language |-> result.language,
     is_generated |-> result.is_generated,
     word_count |-> result.word_count,
     duration_seconds |-> result.duration_seconds]

\* process_transcript, lines 92-98
CompletedResponse(response, transcript_data, files, t) ==
    [response EXCEPT !.transcript_data = Some(transcript_data),
                     !.files = files,
                     !.status = "completed",
                     !.completed_at = Some(t)]

\* A faulty variant of FailedResponse, for testing the properties: the status is not set
FailedResponse_StatusKept(response, error, t) ==
    [response EXCEPT !.error_message = Some(error),
                     !.completed_at = Some(t)]

\* process_transcript, lines 109-114
FailedResponse(response, error, t) ==
    [response EXCEPT !.status = "failed",
                     !.error_message = Some(error),
                     !.completed_at = Some(t)]

\* get_task_status: self._tasks.get(task_id)
get_task_status(reg, task_id) ==
    IF task_id \in DOMAIN reg THEN Some(reg[task_id]) ELSE None

\* list(self._tasks.values()): the records in the dict's insertion order
RECURSIVE Values(_, _)
Values(reg, i) ==
    IF i > MaxTasks THEN <<>>
    ELSE (IF i \in DOMAIN reg THEN <<reg[i]>> ELSE <<>>) \o Values(reg, i + 1)

\* x put into a list sorted newest first, behind the records as new as x
\* (list.sort is stable, also with reverse=True)
RECURSIVE InsertDesc(_, _)
InsertDesc(sorted, x) ==
    IF sorted = <<>> THEN <<x>>
    ELSE IF sorted[1].created_at >= x.created_at
    THEN <<sorted[1]>> \o InsertDesc(Tail(sorted), x)
    ELSE <<x>> \o sorted

RECURSIVE SortDesc(_)
SortDesc(l) ==
    IF l = <<>> THEN <<>>
    ELSE InsertDesc(SortDesc(Take(l, Len(l) - 1)), l[Len(l)])

\* A faulty variant of list_tasks, for testing the properties: the sort is left out
list_tasks_Unsorted(reg, limit) ==
    LET l == Values(reg, 1)
    IN  Take(l, IF limit < Len(l) THEN limit ELSE Len(l))

\* list_tasks, lines 125-128
list_tasks(reg, limit) ==
    LET sorted == SortDesc(Values(reg, 1))
    IN  Take(sorted, IF limit < Len(sorted) THEN limit ELSE Len(sorted))

----------------------------------------------------------------------------
(* The state machine of one TranscriptionService. *)

\* No process_transcript call is in progress.
NoFrame ==
    [task_id |-> 0, format |-> "", custom_filename |-> None, route |-> "",
     transcript_data |-> None, base_filename |-> <<>>, timestamp |-> 0,
     files |-> <<>>, before |-> {}]

\* What the last call did: its name and task id, whether it raised (and
\* str() of the exception), the value it returned, and what else it did.
Returned(name, task_id, value, aux) ==
    [name |-> name, task_id |-> task_id, raised |-> FALSE, error |-> "",
     ret |-> value, aux |-> aux]
Raised(name, task_id, error, aux) ==
    [name |-> name, task_id |-> task_id, raised |-> TRUE, error |-> error,
     ret |-> None, aux |-> aux]

\* TranscriptionService.__init__: self._tasks = {}
NewRegistry == <<>>

Init ==
    /\ tasks = NewRegistry
    /\ disk = {}
    /\ now = 0
    /\ nextId = 0
    /\ pc = "idle"
    /\ cur = NoFrame
    /\ requested = [i \in TaskIds |-> ""]
    /\ issued = {}
    /\ fetches = 0
    /\ op = Returned("init", 0, None, None)
    /\ mtime = <<>>
    /\ utcoffset = 0
    /\ rate_requests = <<>>
    /\ client_log = <<>>
    /\ debug = FALSE

\* The clock advances.
Tick ==
    /\ now < MaxTime
    /\ now' = now + 1
    /\ UNCHANGED <<tasks, disk, nextId, pc, cur, requested, issued, fetches, op>>
    /\ UNCHANGED envVars

\* A faulty variant of uuid4, for testing the properties: the same id every time
uuid4_Fixed == CHOOSE id \in TaskIds : \A other \in TaskIds : id <= other

\* uuid.uuid4(): an id no earlier call was given
uuid4 == nextId + 1

\* create_transcript_task, lines 40-48: the registry with the new record
registered(reg, task_id, video_info) ==
    Put(reg, task_id, PendingResponse(task_id, video_info, now))

\* create_transcript_task(request)
create_transcript_task(request) ==
    /\ pc = "idle"
    /\ nextId < MaxTasks
    /\ LET task_id == uuid4
           info == VideoInfoOf[request.url]
       IN  IF info.raised
           THEN /\ op' = Raised("create", 0, info.error, request.url)
                /\ UNCHANGED <<tasks, nextId>>
           ELSE /\ tasks' = registered(tasks, task_id, info.value[1])
                /\ nextId' = nextId + 1
                /\ op' = Returned("create", task_id, Some(task_id), request.url)
    /\ UNCHANGED <<disk, now, pc, cur, requested, issued, fetches>>
    /\ UNCHANGED envVars

\* get_task_status(task_id)
GetTaskStatus(task_id) ==
    /\ pc = "idle"
    /\ op' = Returned("get", task_id, get_task_status(tasks, task_id), None)
    /\ UNCHANGED <<tasks, disk, now, nextId, pc, cur, requested, issued, fetches>>
    /\ UNCHANGED envVars

\* list_tasks(limit)
ListTasks(limit) ==
    /\ pc = "idle"
    /\ op' = Returned("list", 0, list_tasks(tasks, limit), limit)
    /\ UNCHANGED <<tasks, disk, now, nextId, pc, cur, requested, issued, fetches>>
    /\ UNCHANGED envVars

\* delete_task(task_id), lines 132-133: the task is not in the registry
DeleteMissing(task_id) ==
    /\ pc = "idle"
    /\ task_id \notin DOMAIN tasks
    /\ op' = Returned("delete", task_id, Some(FALSE), None)
    /\ UNCHANGED <<tasks, disk, now, nextId, pc, cur, requested, issued, fetches>>
    /\ UNCHANGED envVars

\* A faulty variant of DeleteTask, for testing the properties: a failed unlink is raised on, the record stays
DeleteTask_Escalates(task_id) ==
    /\ pc = "idle"
    /\ task_id \in DOMAIN tasks
    /\ \E unlink_fails \in SUBSET (PathsOf(tasks[task_id].files) \cap disk) :
          /\ disk' = delete_files(disk, PathsOf(tasks[task_id].files),
                                  unlink_fails)
          /\ IF unlink_fails = {}
             THEN /\ op' = Returned("delete", task_id, Some(TRUE),
                                    [files |-> PathsOf(tasks[task_id].files),
                                     unlink_fails |-> unlink_fails])
                  /\ tasks' = Without(tasks, {task_id})
                  /\ requested' = [requested EXCEPT ![task_id] = ""]
             ELSE /\ op' = Raised("delete", task_id, "[Errno 13] Permission denied",
                                  None)
                  /\ UNCHANGED <<tasks, requested>>
    /\ UNCHANGED <<now, nextId, pc, cur, issued, fetches>>
    /\ UNCHANGED envVars

\* delete_task(task_id), lines 135-148: the task is in the registry; unlink
\* raises for the files of unlink_fails
DeleteTask(task_id) ==
    /\ pc = "idle"
    /\ task_id \in DOMAIN tasks
    /\ \E unlink_fails \in SUBSET (PathsOf(tasks[task_id].files) \cap disk) :
          /\ disk' = delete_files(disk, PathsOf(tasks[task_id].files),
                                  unlink_fails)
          /\ op' = Returned("delete", task_id, Some(TRUE),
                            [files |-> PathsOf(tasks[task_id].files),
                             unlink_fails |-> unlink_fails])
    /\ tasks' = Without(tasks, {task_id})
    /\ requested' = [requested EXCEPT ![task_id] = ""]
    /\ UNCHANGED <<now, nextId, pc, cur, issued, fetches>>
    /\ UNCHANGED envVars

\* A faulty variant of ProcessMissing, for testing the properties: nothing is raised
ProcessMissing_Silent(task_id, request) ==
    /\ pc = "idle"
    /\ task_id \notin DOMAIN tasks
    /\ op' = Returned("process", task_id, None, None)
    /\ UNCHANGED <<tasks, disk, now, nextId, pc, cur, requested, issued, fetches>>
    /\ UNCHANGED envVars

\* process_transcript(task_id, request), lines 55-56: the task is not in
\* the registry, ValueError is raised
ProcessMissing(task_id, request) ==
    /\ pc = "idle"
    /\ task_id \notin DOMAIN tasks
    /\ op' = Raised("process", task_id, "Task not found", None)
    /\ UNCHANGED <<tasks, disk, now, nextId, pc, cur, requested, issued, fetches>>
    /\ UNCHANGED envVars

\* The frame of a process_transcript call: its arguments (of the request,
\* the fields it reads) and locals, and the locals of the save_transcript
\* call inside it, with the files that were in the output directory when
\* save_transcript was called (before).
Frame(task_id, request, route) ==
    [task_id |-> task_id, format |-> request.format,
     custom_filename |-> request.custom_filename, route |-> route,
     transcript_data |-> None,
     base_filename |-> <<>>, timestamp |-> 0, files |-> <<>>, before |-> {}]

\* process_transcript, lines 58-71: the record goes to processing and
\* fetch_transcript is called
ProcessStart(task_id, request) ==
    /\ pc = "idle"
    /\ fetches < MaxFetches
    /\ task_id \in DOMAIN tasks
    /\ tasks' = [tasks EXCEPT ![task_id] = ProcessingResponse(@)]
    /\ cur' = Frame(task_id, request, "service")
    /\ requested' = [requested EXCEPT ![task_id] = request.format]
    /\ pc' = "fetch"
    /\ fetches' = fetches + 1
    /\ UNCHANGED <<disk, now, nextId, issued, op>>
    /\ UNCHANGED envVars

\* The exception a request handler had to deal with: its kind
\* ("extraction" for those of extract_video_id, "fetch" for transcripts that
\* are disabled or not found, "internal" for any other) and str() of it.
Cause(kind, text) == [kind |-> kind, text |-> text]
NoCause == Cause("none", "")

\* process_transcript returns the record of the task (the route of
\* POST /transcripts/ then answers 201 with it, transcripts.py lines 50-53).
ProcessReturns(registry, cause) ==
    /\ pc' = "idle"
    /\ cur' = NoFrame
    /\ op' = IF cur.route = "service"
             THEN Returned("process", cur.task_id, Some(registry[cur.task_id]),
                           [route |-> cur.route, format |-> cur.format])
             ELSE Returned(cur.route, cur.task_id,
                           <<201, Some(registry[cur.task_id])>>, cause)
    /\ issued' = IF cur.route = "service" THEN issued
                 ELSE issued \cup {cur.task_id}
    /\ UNCHANGED <<now, nextId, requested, fetches>>
    /\ UNCHANGED envVars

\* process_transcript, lines 105-117: the except branch
ProcessFails(error, kind) ==
    /\ tasks' = [tasks EXCEPT ![cur.task_id] = FailedResponse(@, error, now)]
    /\ ProcessReturns(tasks', Cause(kind, error))

\* fetch_transcript raises (lines 116-131)
FetchFails(e) ==
    /\ pc = "fetch"
    /\ ProcessFails(fetch_error(e), fetch_error_kind(e))
    /\ UNCHANGED disk

\* fetch_transcript returns (lines 67-82), and save_transcript names its
\* files (storage_service.py lines 36-46)
FetchReturns(t) ==
    /\ pc = "fetch"
    /\ LET data == TranscriptData(tasks[cur.task_id].video_info, fetch_result(t))
       IN  cur' = [cur EXCEPT
                     !.transcript_data = Some(data),
                     !.base_filename = base_filename(data, cur.custom_filename),
                     !.timestamp = strftime(now),
                     !.before = disk]
    /\ pc' = NextWrite(cur.format, 0)
    /\ UNCHANGED <<tasks, disk, now, nextId, requested, issued, fetches, op>>
    /\ UNCHANGED envVars

\* The file the _save_as_<pc> call in progress writes.
CurPath == FilePath(cur.base_filename, cur.timestamp, pc)

\* _save_as_txt, _save_as_pdf or _save_as_json writes its file and returns
SaveReturns ==
    /\ pc \in {"txt", "pdf", "json"}
    /\ disk' = write_file(disk, CurPath)
    /\ cur' = [cur EXCEPT !.files = Append(@, FileOutput(CurPath))]
    /\ pc' = NextWrite(cur.format, WriteIndex(pc))
    /\ UNCHANGED <<tasks, now, nextId, requested, issued, fetches, op>>
    /\ UNCHANGED envVars

\* _save_as_txt, _save_as_pdf or _save_as_json raises: save_transcript
\* removes what it wrote and raises on, process_transcript records it
SaveFails(outcome) ==
    /\ pc \in {"txt", "pdf", "json"}
    /\ outcome \in WriteOutcomes \ {"ok"}
    /\ \E remove_fails \in SUBSET PathsOf(cur.files) :
          disk' = cleanup_partial(disk, PathsOf(cur.files), remove_fails,
                                  CurPath, outcome)
    /\ ProcessFails("[Errno 28] No space left on device", "internal")

\* save_transcript has returned the files: lines 91-103
ProcessCompletes ==
    /\ pc = "done"
    /\ tasks' = [tasks EXCEPT ![cur.task_id] =
                    CompletedResponse(@, cur.transcript_data[1], cur.files, now)]
    /\ ProcessReturns(tasks', NoCause)
    /\ UNCHANGED disk

\* The limits list_tasks is called with.
Limits == 1..MaxTasks

\* The requests process_transcript is called with: any format and file
\* name (it does not read request.url).
ProcessRequests == {r \in Requests : r.url = UrlWatch}

\* The steps of a process_transcript call in progress.
ProcessSteps ==
    \/ \E e \in ApiErrors : FetchFails(e)
    \/ \E t \in ApiTranscripts : FetchReturns(t)
    \/ SaveReturns
    \/ \E outcome \in WriteOutcomes : SaveFails(outcome)
    \/ ProcessCompletes

Next ==
    \/ Tick
    \/ \E request \in Requests : create_transcript_task(request)
    \/ \E task_id \in TaskIds : GetTaskStatus(task_id)
    \/ \E limit \in Limits : ListTasks(limit)
    \/ \E task_id \in TaskIds : DeleteMissing(task_id)
    \/ \E task_id \in TaskIds : DeleteTask(task_id)
    \/ \E task_id \in TaskIds, request \in ProcessRequests :
         ProcessMissing(task_id, request)
    \/ \E task_id \in TaskIds, request \in ProcessRequests :
         ProcessStart(task_id, request)
    \/ ProcessSteps

\* One TranscriptionService object, called any number of times.
Spec == Init /\ [][Next]_vars

----------------------------------------------------------------------------
(* app/api/routes/transcripts.py: the HTTP requests.  Each handler gets     *)
(* its TranscriptionService from Depends(get_transcription_service), so     *)
(* `tasks` is here the registry of the service of the request being         *)
(* handled; the output directory and the clock are those of the process.    *)
(* The handlers are modelled from the point where check_rate_limit has      *)
(* let the request in.                                                      *)

\* app/api/dependencies.py, get_transcription_service: the registry of the
\* TranscriptionService() it returns
get_transcription_service == NewRegistry

\* What a route answered: its status code and, of its body, the task record
\* or task id (None when the body has none).
Answered(route, task_id, status_code, body) ==
    Returned(route, task_id, <<status_code, body>>, NoCause)

\* main.py, http_exception_handler: the answer to a raised HTTPException.
\* A detail built with an f-string is the sequence of its pieces.
http_exception_handler(status_code, detail) ==
    <<status_code, Some([error |-> "HTTPException", message |-> detail])>>

\* What a route answered by raising HTTPException(status_code, detail),
\* and the exception that made it do so.
AnsweredError(route, task_id, status_code, detail, cause) ==
    Returned(route, task_id, http_exception_handler(status_code, detail), cause)

\* POST /transcripts/ : create_transcript up to the fetch of
\* process_transcript; the steps of ProcessSteps follow, and the record
\* process_transcript returns is the body of the 201 answer.
HttpCreateTranscript(request) ==
    /\ pc = "idle"
    /\ nextId < MaxTasks
    /\ fetches < MaxFetches
    /\ LET service == get_transcription_service
           task_id == uuid4
           info == VideoInfoOf[request.url]
       IN  IF info.raised
           THEN /\ tasks' = service
                /\ op' = AnsweredError("POST /transcripts/", 0, 500,
                                       <<"Failed to create transcript: ",
                                         info.error>>,
                                       Cause("extraction", info.error))
                /\ UNCHANGED <<nextId, pc, cur, requested, fetches>>
           ELSE /\ tasks' = [registered(service, task_id, info.value[1])
                               EXCEPT ![task_id] = ProcessingResponse(@)]
                /\ nextId' = nextId + 1
                /\ cur' = Frame(task_id, request, "POST /transcripts/")
                /\ requested' = [requested EXCEPT ![task_id] = request.format]
                /\ pc' = "fetch"
                /\ fetches' = fetches + 1
                /\ UNCHANGED op
    /\ UNCHANGED <<disk, now, issued>>
    /\ UNCHANGED envVars

\* create_transcript_async, lines 82-86: the body of the 202 answer (the
\* message, a fixed text, is left out)
Accepted(task_id) == [task_id |-> task_id, status |-> "accepted"]

\* A faulty variant of HttpCreateAsync, for testing the properties: the record is marked as being processed
HttpCreateAsync_Processing(request) ==
    /\ pc = "idle"
    /\ nextId < MaxTasks
    /\ LET service == get_transcription_service
           task_id == uuid4
           info == VideoInfoOf[request.url]
       IN  IF info.raised
           THEN /\ tasks' = service
                /\ op' = AnsweredError("POST /transcripts/async", 0, 500,
                                       <<"Failed to create transcript task: ",
                                         info.error>>,
                                       Cause("extraction", info.error))
                /\ UNCHANGED <<nextId, issued>>
           ELSE /\ tasks' = [registered(service, task_id, info.value[1])
                               EXCEPT ![task_id] = ProcessingResponse(@)]
                /\ nextId' = nextId + 1
                /\ op' = Answered("POST /transcripts/async", task_id, 202,
                                  Some(Accepted(task_id)))
                /\ issued' = issued \cup {task_id}
    /\ UNCHANGED <<disk, now, pc, cur, requested, fetches>>
    /\ UNCHANGED envVars

\* POST /transcripts/async : create_transcript_async
HttpCreateAsync(request) ==
    /\ pc = "idle"
    /\ nextId < MaxTasks
    /\ LET service == get_transcription_service
           task_id == uuid4
           info == VideoInfoOf[request.url]
       IN  IF info.raised
           THEN /\ tasks' = service
                /\ op' = AnsweredError("POST /transcripts/async", 0, 500,
                                       <<"Failed to create transcript task: ",
                                         info.error>>,
                                       Cause("extraction", info.error))
                /\ UNCHANGED <<nextId, issued>>
           ELSE /\ tasks' = registered(service, task_id, info.value[1])
                /\ nextId' = nextId + 1
                /\ op' = Answered("POST /transcripts/async", task_id, 202,
                                  Some(Accepted(task_id)))
                /\ issued' = issued \cup {task_id}
    /\ UNCHANGED <<disk, now, pc, cur, requested, fetches>>
    /\ UNCHANGED envVars

\* GET /transcripts/{task_id} : get_transcript
HttpGetTranscript(task_id) ==
    /\ pc = "idle"
    /\ LET service == get_transcription_service
           response == get_task_status(service, task_id)
       IN  /\ tasks' = service
           /\ op' = IF response = None
                    THEN AnsweredError("GET /transcripts/{task_id}", task_id, 404,
                                       <<"Transcript task ", ToString(task_id),
                                         " not found">>, NoCause)
                    ELSE Answered("GET /transcripts/{task_id}", task_id, 200,
                                  response)
    /\ UNCHANGED <<disk, now, nextId, pc, cur, requested, issued, fetches>>
    /\ UNCHANGED envVars

\* GET /transcripts/{task_id}/status : get_task_status
HttpGetStatus(task_id) ==
    /\ pc = "idle"
    /\ LET service == get_transcription_service
           response == get_task_status(service, task_id)
       IN  /\ tasks' = service
           /\ op' = IF response = None
                    THEN AnsweredError("GET /transcripts/{task_id}/status",
                                       task_id, 404,
                                       <<"Task ", ToString(task_id),
                                         " not found">>, NoCause)
                    ELSE Answered("GET /transcripts/{task_id}/status", task_id,
                                  200, Some(response[1].status))
    /\ UNCHANGED <<disk, now, nextId, pc, cur, requested, issued, fetches>>
    /\ UNCHANGED envVars

\* DELETE /transcripts/{task_id} : delete_transcript
HttpDelete(task_id) ==
    /\ pc = "idle"
    /\ LET service == get_transcription_service
       IN  IF task_id \in DOMAIN service
           THEN /\ \E unlink_fails \in
                        SUBSET (PathsOf(service[task_id].files) \cap disk) :
                      disk' = delete_files(disk, PathsOf(service[task_id].files),
                                           unlink_fails)
                /\ tasks' = Without(service, {task_id})
                /\ issued' = issued \ {task_id}
                /\ op' = Answered("DELETE /transcripts/{task_id}", task_id,
                                  204, None)
           ELSE /\ tasks' = service
                /\ op' = AnsweredError("DELETE /transcripts/{task_id}", task_id,
                                       404,
                                       <<"Transcript task ", ToString(task_id),
                                         " not found">>, NoCause)
                /\ UNCHANGED <<disk, issued>>
    /\ UNCHANGED <<now, nextId, pc, cur, requested, fetches>>
    /\ UNCHANGED envVars

\* get_available_transcripts, lines 55-70: str() of what it raises
list_error(e) ==
    CASE e = "TranscriptsDisabled" ->
             "404: Transcripts are disabled for this video"
      [] e = "NoTranscriptFound" ->
             "404: No transcripts found for this video"
      [] OTHER -> "500: Failed to fetch transcript information"

\* POST /transcripts/quick : quick_transcript; get_video_info raises, or
\* fetch_transcript raises or returns
HttpQuick(url) ==
    /\ pc = "idle"
    /\ LET info == VideoInfoOf[url]
           route == "POST /transcripts/quick"
       IN  IF info.raised
           THEN op' = AnsweredError(route, 0, 400,
                                    <<"Failed to get transcript: ", info.error>>,
                                    Cause("extraction", info.error))
           ELSE \/ \E e \in ApiErrors :
                      op' = AnsweredError(route, 0, 400,
                                          <<"Failed to get transcript: ",
                                            fetch_error(e)>>,
                                          Cause(fetch_error_kind(e),
                                                fetch_error(e)))
                \/ \E t \in ApiTranscripts :
                      op' = Answered(route, 0, 200,
                                     Some(fetch_result(t).full_text))
    /\ UNCHANGED <<tasks, disk, now, nextId, pc, cur, requested, issued, fetches>>
    /\ UNCHANGED envVars

\* GET /transcripts/info/video : get_video_transcript_info; get_video_info
\* raises, or get_available_transcripts raises or returns
HttpVideoInfo(url) ==
    /\ pc = "idle"
    /\ LET info == VideoInfoOf[url]
           route == "GET /transcripts/info/video"
       IN  IF info.raised
           THEN op' = AnsweredError(route, 0, 400,
                                    <<"Failed to get video information: ",
                                      info.error>>,
                                    Cause("extraction", info.error))
           ELSE \/ \E e \in ApiErrors :
                      op' = AnsweredError(route, 0, 400,
                                          <<"Failed to get video information: ",
                                            list_error(e)>>,
                                          Cause(fetch_error_kind(e),
                                                list_error(e)))
                \/ op' = Answered(route, 0, 200, Some(info.value[1]))
    /\ UNCHANGED <<tasks, disk, now, nextId, pc, cur, requested, issued, fetches>>
    /\ UNCHANGED envVars

\* The server starts, with the debug flag set or not.
HttpInit ==
    /\ tasks = NewRegistry
    /\ disk = {}
    /\ now = 0
    /\ nextId = 0
    /\ pc = "idle"
    /\ cur = NoFrame
    /\ requested = [i \in TaskIds |-> ""]
    /\ issued = {}
    /\ fetches = 0
    /\ op = Returned("init", 0, None, NoCause)
    /\ mtime = <<>>
    /\ utcoffset = 0
    /\ rate_requests = <<>>
    /\ client_log = <<>>
    /\ debug \in BOOLEAN

HttpNext ==
    \/ Tick
    \/ \E url \in Urls : HttpQuick(url)
    \/ \E url \in Urls : HttpVideoInfo(url)
    \/ \E request \in Requests : HttpCreateTranscript(request)
    \/ \E request \in Requests : HttpCreateAsync(request)
    \/ \E task_id \in TaskIds : HttpGetTranscript(task_id)
    \/ \E task_id \in TaskIds : HttpGetStatus(task_id)
    \/ \E task_id \in TaskIds : HttpDelete(task_id)
    \/ ProcessSteps

\* The running server, any number of requests.
HttpSpec == HttpInit /\ [][HttpNext]_vars

----------------------------------------------------------------------------
(* StorageService.cleanup_old_files, the output directory it walks and the  *)
(* clock it reads.  Here `now` and the modification times are seconds since *)
(* the epoch, and the clock moves from one instant of Instants to a later   *)
(* one.                                                                     *)

\* days on the clock of the cleanup runs
MaxDays == 2

\* cleanup_old_files, line 263: 24 * 60 * 60
SecondsPerDay == 24 * 60 * 60

\* The instants the clock is read at: every midnight and the second after.
Instants ==
    UNION {{d * SecondsPerDay, d * SecondsPerDay + 1} : d \in 0..MaxDays}

\* The UTC offsets of the time zones the server may run in.
UtcOffsets == {0 - 60 * 60, 0, 60 * 60}

\* The files of the output directory.
FileNames == {"a.txt", "b.pdf"}

\* The days_old the route POST /files/cleanup lets through (line 193).
DaysOld == 1..MaxDays

\* datetime.utcnow().timestamp() at the instant t: utcnow() is a naive
\* datetime that holds the UTC wall clock, and timestamp() reads a naive
\* datetime as local time.
utcnow_timestamp(t, offset) == t - offset

\* cleanup_old_files, line 263
cutoff_time(t, offset, days_old) ==
    utcnow_timestamp(t, offset) - (days_old * SecondsPerDay)

\* cleanup_old_files, lines 266-267: the files it unlinks
old_files(dir, cutoff) == {f \in DOMAIN dir : dir[f] < cutoff}

\* A faulty variant of deleted_count, for testing the properties: the files that stay are counted too
deleted_count_Attempts(old, unlink_fails) == Cardinality(old)

\* cleanup_old_files, lines 268-273: deleted_count goes up after each unlink
\* that did not raise
deleted_count(old, unlink_fails) == Cardinality(old \ unlink_fails)

\* The server starts, in some time zone, on an empty output directory.
CleanupInit ==
    /\ tasks = NewRegistry
    /\ disk = {}
    /\ now = 0
    /\ nextId = 0
    /\ pc = "idle"
    /\ cur = NoFrame
    /\ requested = [i \in TaskIds |-> ""]
    /\ issued = {}
    /\ fetches = 0
    /\ op = Returned("init", 0, None, None)
    /\ mtime = <<>>
    /\ utcoffset \in UtcOffsets
    /\ rate_requests = <<>>
    /\ client_log = <<>>
    /\ debug = FALSE

\* The clock advances to a later instant.
ClockAdvances ==
    /\ \E t \in Instants : t > now /\ now' = t
    /\ UNCHANGED <<tasks, disk, nextId, pc, cur, requested, issued, fetches, op,
                   mtime, utcoffset, rate_requests, client_log, debug>>

\* A writer of the exporter writes the file `name`.
FileIsWritten(name) ==
    /\ mtime' = Put(mtime, name, now)
    /\ op' = Returned("write", 0, None, name)
    /\ UNCHANGED <<tasks, disk, now, nextId, pc, cur, requested, issued, fetches,
                   utcoffset, rate_requests, client_log, debug>>

\* cleanup_old_files(days_old): unlink raises for the files of unlink_fails
cleanup_old_files(days_old) ==
    /\ LET old == old_files(mtime, cutoff_time(now, utcoffset, days_old))
       IN  \E unlink_fails \in SUBSET old :
              /\ mtime' = Without(mtime, old \ unlink_fails)
              /\ op' = Returned("cleanup", 0,
                                Some(deleted_count(old, unlink_fails)),
                                [days_old |-> days_old,
                                 unlink_fails |-> unlink_fails])
    /\ UNCHANGED <<tasks, disk, now, nextId, pc, cur, requested, issued, fetches,
                   utcoffset, rate_requests, client_log, debug>>

CleanupNext ==
    \/ ClockAdvances
    \/ \E name \in FileNames : FileIsWritten(name)
    \/ \E days_old \in DaysOld : cleanup_old_files(days_old)

\* One StorageService over the output directory, any number of cleanups.
CleanupSpec == CleanupInit /\ [][CleanupNext]_vars

----------------------------------------------------------------------------
(* app/api/dependencies.py: the rate limiter in front of the routes.  Here  *)
(* `now` is time.time(), in seconds.                                        *)

\* windows on the clock of the rate limiter
MaxWindows == 1
\* requests sent with a client_ip parameter inside one window
MaxWithParam == 1

\* rate_limiter = RateLimiter(max_requests=50, window_minutes=60)
max_requests == 50
window_minutes == 60

\* The instants requests arrive at.
LimiterInstants == {k * (window_minutes * 60) : k \in 0..MaxWindows}

\* The clients (IP addresses) that send requests.
Clients == {"10.0.0.1", "10.0.0.2"}

\* The query parameter client_ip a client sends with its request: FastAPI
\* fills the parameter `client_ip: str = None` of the dependency
\* check_rate_limit from the query string.
ClientIpParams(client) ==
    IF client = "10.0.0.1" THEN {None, Some("x")} ELSE {None}

\* check_rate_limit, lines 114-115: the client_id the request is counted under
client_id_of(client_ip) == IF client_ip = None THEN "default" ELSE client_ip[1]

\* The times of l that are later than window_start.
RECURSIVE Recent(_, _)
Recent(l, window_start) ==
    IF l = <<>> THEN <<>>
    ELSE (IF l[1] > window_start THEN <<l[1]>> ELSE <<>>)
            \o Recent(Tail(l), window_start)

\* is_allowed, lines 88-97: the entries of client_id inside the window
cleaned(reqs, client_id, t) ==
    IF client_id \in DOMAIN reqs
    THEN Recent(reqs[client_id], t - (window_minutes * 60))
    ELSE <<>>

\* is_allowed, lines 100-105: what it returns
is_allowed(reqs, client_id, t) ==
    ~(Len(cleaned(reqs, client_id, t)) >= max_requests)

\* is_allowed, lines 91-104: self._requests when it returns
recorded(reqs, client_id, t) ==
    Put(reqs, client_id,
        IF is_allowed(reqs, client_id, t)
        THEN Append(cleaned(reqs, client_id, t), t)
        ELSE cleaned(reqs, client_id, t))

\* The clock of the rate limiter advances to a later instant.
LimiterClockAdvances ==
    /\ \E t \in LimiterInstants : t > now /\ now' = t
    /\ client_log' = [c \in DOMAIN client_log |->
                         Recent(client_log[c], now' - (window_minutes * 60))]
    /\ UNCHANGED <<tasks, disk, nextId, pc, cur, requested, issued, fetches, op,
                   mtime, utcoffset, rate_requests, debug>>

\* check_rate_limit(client_ip), for a request of `client`: 429 when
\* is_allowed returns False
check_rate_limit(client, client_ip) ==
    /\ client_ip # None =>
          Len(cleaned(rate_requests, client_id_of(client_ip), now)) < MaxWithParam
    /\ LET client_id == client_id_of(client_ip)
           allowed == is_allowed(rate_requests, client_id, now)
       IN  /\ rate_requests' = recorded(rate_requests, client_id, now)
           /\ client_log' =
                 IF allowed
                 THEN Put(client_log, client,
                          (IF client \in DOMAIN client_log
                           THEN client_log[client] ELSE <<>>) \o <<now>>)
                 ELSE client_log
           /\ op' = Returned("check_rate_limit", 0,
                             Some(IF allowed THEN 200 ELSE 429),
                             [client |-> client, client_id |-> client_id])
    /\ UNCHANGED <<tasks, disk, now, nextId, pc, cur, requested, issued, fetches,
                   mtime, utcoffset, debug>>

LimiterNext ==
    \/ LimiterClockAdvances
    \/ \E client \in Clients :
          \E client_ip \in ClientIpParams(client) :
             check_rate_limit(client, client_ip)

\* The global rate_limiter of the running server.
LimiterSpec == Init /\ [][LimiterNext]_vars

----------------------------------------------------------------------------
(* app/api/routes/files.py: the file routes over the output directory.     *)
(* File names and path segments are sequences of characters.               *)

N_stats == <<"s","t","a","t","s">>
N_info == <<"i","n","f","o">>
N_cleanup == <<"c","l","e","a","n","u","p">>
N_a_txt == <<"a",".","t","x","t">>
N_b_PDF == <<"b",".","P","D","F">>

\* The path parameter {filename} of a route.
P_filename == <<"{","f","i","l","e","n","a","m","e","}">>

\* The files that come and go in the output directory.
StoredNames == {N_stats, N_a_txt, N_b_PDF}

\* st_size of the files.
st_size(name) ==
    CASE name = N_stats -> 5
      [] name = N_a_txt -> 120
      [] OTHER -> 2048

\* The routes of the router, in the order the decorators add them
\* (files.py lines 19, 52, 97, 137, 181 and 219).
files_routes ==
    << [method |-> "GET", path |-> <<>>, endpoint |-> "list_files"],
       [method |-> "GET", path |-> <<P_filename>>, endpoint |-> "download_file"],
       [method |-> "DELETE", path |-> <<P_filename>>, endpoint |-> "delete_file"],
       [method |-> "GET", path |-> <<P_filename, N_info>>,
        endpoint |-> "get_file_info"],
       [method |-> "POST", path |-> <<N_cleanup>>,
        endpoint |-> "cleanup_old_files"],
       [method |-> "GET", path |-> <<N_stats>>, endpoint |-> "get_file_stats"] >>

\* A route matches a request of its method whose path has its segments, a
\* path parameter standing for any one segment.
RouteMatches(route, method, segments) ==
    /\ route.method = method
    /\ Len(route.path) = Len(segments)
    /\ \A i \in 1..Len(segments) :
          route.path[i] = P_filename \/ route.path[i] = segments[i]

\* The router hands a request to the first route that matches it.
RECURSIVE Dispatch(_, _, _)
Dispatch(routes, method, segments) ==
    IF routes = <<>> THEN "not_found"
    ELSE IF RouteMatches(routes[1], method, segments) THEN routes[1].endpoint
    ELSE Dispatch(Tail(routes), method, segments)

\* The requests sent to the file routes.
FileRequests ==
    { [label |-> "GET /files/", method |-> "GET", segments |-> <<>>],
      [label |-> "GET /files/stats", method |-> "GET", segments |-> <<N_stats>>],
      [label |-> "GET /files/a.txt", method |-> "GET", segments |-> <<N_a_txt>>],
      [label |-> "GET /files/a.txt/info", method |-> "GET",
       segments |-> <<N_a_txt, N_info>>],
      [label |-> "GET /files/b.PDF/info", method |-> "GET",
       segments |-> <<N_b_PDF, N_info>>] }

\* The position of the last "." of s, 0 when it has none.
RECURSIVE LastDot(_, _)
LastDot(s, i) ==
    IF i = 0 THEN 0 ELSE IF s[i] = "." THEN i ELSE LastDot(s, i - 1)

\* Path(filename).suffix.lower().lstrip('.'): a name has a suffix when its
\* last "." is neither its first nor its last character.
RECURSIVE LStripDots(_)
LStripDots(s) ==
    IF s # <<>> /\ s[1] = "." THEN LStripDots(Tail(s)) ELSE s
file_type(filename) ==
    LET i == LastDot(filename, Len(filename))
        suffix == IF i > 1 /\ i < Len(filename) THEN Drop(filename, i - 1)
                  ELSE <<>>
    IN  LStripDots(Lower(suffix))

RECURSIVE SumSizes(_)
SumSizes(names) ==
    IF names = {} THEN 0
    ELSE LET n == CHOOSE x \in names : TRUE
         IN  st_size(n) + SumSizes(names \ {n})

\* get_file_stats, lines 230-258 (the sizes in megabytes, the average and
\* the oldest and newest file are left out)
get_file_stats(dir) ==
    IF DOMAIN dir = {}
    THEN [total_files |-> 0, total_size_bytes |-> 0, file_types |-> <<>>]
    ELSE LET types == {file_type(n) : n \in DOMAIN dir} \ {<<>>}
         IN  [total_files |-> Cardinality(DOMAIN dir),
              total_size_bytes |-> SumSizes(DOMAIN dir),
              file_types |->
                  [t \in types |->
                      Cardinality({n \in DOMAIN dir : file_type(n) = t})]]

\* download_file, lines 62-85, and get_file_info, lines 148-169: 404 when
\* get_file finds no such file
file_or_404(dir, filename, body) ==
    IF filename \in DOMAIN dir
    THEN <<200, Some(body)>>
    ELSE http_exception_handler(404, <<"File ", filename, " not found">>)

\* What the endpoint a request is dispatched to answers.
files_answer(dir, endpoint, segments) ==
    CASE endpoint = "list_files" ->
             <<200, Some([files |-> DOMAIN dir])>>
      [] endpoint = "download_file" ->
             file_or_404(dir, segments[1], [file |-> segments[1]])
      [] endpoint = "get_file_info" ->
             file_or_404(dir, segments[1],
                         [filename |-> segments[1],
                          size_bytes |-> st_size(segments[1]),
                          file_type |-> file_type(segments[1])])
      [] endpoint = "get_file_stats" ->
             <<200, Some(get_file_stats(dir))>>
      [] OTHER ->
             http_exception_handler(404, <<"Not Found">>)

\* Another process puts the file `name` into the output directory, or
\* takes it away.
FileAppears(name) ==
    /\ mtime' = Put(mtime, name, now)
    /\ UNCHANGED <<tasks, disk, now, nextId, pc, cur, requested, issued, fetches,
                   op, utcoffset, rate_requests, client_log, debug>>
FileDisappears(name) ==
    /\ name \in DOMAIN mtime
    /\ mtime' = Without(mtime, {name})
    /\ UNCHANGED <<tasks, disk, now, nextId, pc, cur, requested, issued, fetches,
                   op, utcoffset, rate_requests, client_log, debug>>

\* A request to a file route is dispatched and answered.
HttpFiles(request) ==
    /\ LET endpoint == Dispatch(files_routes, request.method, request.segments)
       IN  op' = Returned(request.label, 0,
                          files_answer(mtime, endpoint, request.segments),
                          [endpoint |-> endpoint])
    /\ UNCHANGED <<tasks, disk, now, nextId, pc, cur, requested, issued, fetches,
                   mtime, utcoffset, rate_requests, client_log, debug>>

FilesNext ==
    \/ ClockAdvances
    \/ \E name \in StoredNames : FileAppears(name)
    \/ \E name \in StoredNames : FileDisappears(name)
    \/ \E request \in FileRequests : HttpFiles(request)

\* The file routes of the running server.
FilesSpec == Init /\ [][FilesNext]_vars

----------------------------------------------------------------------------
(* extract_video_id and get_video_info over urls of every shape.  A url is  *)
(* put together from its host, the shape of its path and query, the id      *)
(* segment and what follows the id.                                         *)

H_youtube == <<"y","o","u","t","u","b","e",".","c","o","m">>
H_youtu_be == <<"y","o","u","t","u",".","b","e">>
H_vimeo == <<"v","i","m","e","o",".","c","o","m">>

\* The hosts of the urls: the four video-platform domains, and two others,
\* vimeo.com and notyoutube.com.
UrlHosts ==
    youtube_domains \cup {H_vimeo, <<"n","o","t">> \o H_youtube}

\* https://<host>/<id>, https://<host>/watch?v=<id>,
\* https://<host>/watch?app=desktop&v=<id> and https://<host>/embed/<id>
UrlShapes == {"short", "watch", "watch_late", "embed"}

ShapeMarker(shape) ==
    CASE shape = "short" -> <<"/">>
      [] shape = "watch" -> <<"/">> \o M_watch_v
      [] shape = "watch_late" ->
             <<"/","w","a","t","c","h","?","a","p","p","=",
               "d","e","s","k","t","o","p","&">> \o M_v
      [] shape = "embed" -> <<"/">> \o M_embed

VideoB == <<"a","b","c","d","e","f","-","_","0","1","2">>

\* The id segments: two of 11 characters, one of 5, one of 12, an empty one.
UrlIds ==
    {VideoA, VideoB, <<"s","h","o","r","t">>, VideoA \o <<"x">>, <<>>}

\* What follows the id: nothing, or a suffix that starts with ? or &.
UrlSuffixes ==
    { <<>>, <<"?","t","=","1">>, <<"&","t","=","1">>,
      <<"?","a","=","1","&","b","=","2">> }

\* The urls: short links are those of youtu.be.
UrlParts ==
    {p \in [host : UrlHosts, shape : UrlShapes, id : UrlIds,
            suffix : UrlSuffixes] :
        (p.shape = "short") <=> (p.host = H_youtu_be)}

UrlOf(p) == Https \o p.host \o ShapeMarker(p.shape) \o p.id \o p.suffix

\* What a call of a pure function did.
Called(name, r, aux) ==
    IF r.raised THEN Raised(name, 0, r.error, aux)
    ELSE Returned(name, 0, r.value, aux)

\* extract_video_id and get_video_info called on the urls of UrlParts: the
\* url, the segment the if/elif chain takes, and what the call does.
ExtractedOf ==
    {[parts |-> p, segment |-> extract_segment(UrlOf(p)),
      result |-> extract_video_id(UrlOf(p))] : p \in UrlParts}
InfoOf ==
    {[parts |-> p, segment |-> extract_segment(UrlOf(p)),
      result |-> get_video_info(UrlOf(p))] : p \in UrlParts}

\* extract_video_id(url)
ExtractVideoId(call) ==
    /\ op' = Called("extract_video_id", call.result,
                    [parts |-> call.parts, segment |-> call.segment])
    /\ UNCHANGED <<tasks, disk, now, nextId, pc, cur, requested, issued, fetches>>
    /\ UNCHANGED envVars

\* VideoService.get_video_info(url)
GetVideoInfo(call) ==
    /\ op' = Called("get_video_info", call.result,
                    [parts |-> call.parts, segment |-> call.segment])
    /\ UNCHANGED <<tasks, disk, now, nextId, pc, cur, requested, issued, fetches>>
    /\ UNCHANGED envVars

ExtractNext ==
    \/ \E call \in ExtractedOf : ExtractVideoId(call)
    \/ \E call \in InfoOf : GetVideoInfo(call)

\* The extractor, called on any url any number of times.
ExtractSpec == Init /\ [][ExtractNext]_vars

----------------------------------------------------------------------------
(* StorageService._save_as_json, the file json.dump writes and what         *)
(* json.load reads back from it.  A JSON value is [t |-> type, v |-> value]:  *)
(* the items of an array, the <<key, value>> pairs of an object in their    *)
(* order, the characters of a string; a float is held in tenths.            *)

QT == "\""
BS == "\\"
LF == "\n"

JStr(s) == [t |-> "str", v |-> s]
JInt(n) == [t |-> "int", v |-> n]
JFloat(tenths) == [t |-> "float", v |-> tenths]
JBool(b) == [t |-> "bool", v |-> b]
JNull == [t |-> "null", v |-> <<>>]
JArr(items) == [t |-> "arr", v |-> items]
JObj(pairs) == [t |-> "obj", v |-> pairs]

DigitChars == <<"0","1","2","3","4","5","6","7","8","9">>
IsDigit(c) == \E i \in 1..Len(DigitChars) : DigitChars[i] = c
DigitVal(c) == (CHOOSE i \in 1..Len(DigitChars) : DigitChars[i] = c) - 1

\* str(n) of an int
RECURSIVE NatToChars(_)
NatToChars(n) ==
    IF n < Len(DigitChars) THEN <<DigitChars[n + 1]>>
    ELSE NatToChars(n \div Len(DigitChars))
            \o <<DigitChars[(n % Len(DigitChars)) + 1]>>

\* float.__repr__ of a float of so many tenths: "1.5", "2.0"
FloatToChars(tenths) ==
    NatToChars(tenths \div Len(DigitChars)) \o <<".">>
        \o <<DigitChars[(tenths % Len(DigitChars)) + 1]>>

\* A faulty variant of EscapeChar, for testing the properties: the backslash is written as it is
EscapeChar_BackslashKept(c) ==
    CASE c = QT -> <<BS, QT>>
      [] c = LF -> <<BS, "n">>
      [] OTHER -> <<c>>

\* json.dump of one character of a string, ensure_ascii=False: quote,
\* backslash and newline are escaped, any other character is written as it is
EscapeChar(c) ==
    CASE c = QT -> <<BS, QT>>
      [] c = BS -> <<BS, BS>>
      [] c = LF -> <<BS, "n">>
      [] OTHER -> <<c>>

RECURSIVE Escape(_)
Escape(s) == IF s = <<>> THEN <<>> ELSE EscapeChar(s[1]) \o Escape(Tail(s))

\* indent=2: a new line and two blanks for each level
NewLine(level) == <<LF>> \o [i \in 1..(2 * level) |-> " "]

T_true == <<"t","r","u","e">>
T_false == <<"f","a","l","s","e">>
T_null == <<"n","u","l","l">>

\* json.dump(data, f, indent=2, ensure_ascii=False): the text written
RECURSIVE Dumps(_, _), DumpItems(_, _, _, _)
Dumps(value, level) ==
    CASE value.t = "str" -> <<QT>> \o Escape(value.v) \o <<QT>>
      [] value.t = "int" -> NatToChars(value.v)
      [] value.t = "float" -> FloatToChars(value.v)
      [] value.t = "bool" -> IF value.v THEN T_true ELSE T_false
      [] value.t = "null" -> T_null
      [] value.t = "arr" ->
             IF value.v = <<>> THEN <<"[", "]">>
             ELSE <<"[">> \o DumpItems(value.v, 1, level + 1, FALSE)
                     \o NewLine(level) \o <<"]">>
      [] value.t = "obj" ->
             IF value.v = <<>> THEN <<"{", "}">>
             ELSE <<"{">> \o DumpItems(value.v, 1, level + 1, TRUE)
                     \o NewLine(level) \o <<"}">>
DumpItems(items, i, level, keyed) ==
    IF i > Len(items) THEN <<>>
    ELSE NewLine(level)
            \o (IF keyed
                THEN <<QT>> \o Escape(items[i][1]) \o <<QT, ":", " ">>
                        \o Dumps(items[i][2], level)
                ELSE Dumps(items[i], level))
            \o (IF i < Len(items) THEN <<",">> ELSE <<>>)
            \o DumpItems(items, i + 1, level, keyed)

\* json.load: the value that starts at position i of the text d, and the
\* position after it.
Parsed(value, next) == [v |-> value, next |-> next]

RECURSIVE SkipWs(_, _)
SkipWs(d, i) ==
    IF i <= Len(d) /\ d[i] \in {" ", LF} THEN SkipWs(d, i + 1) ELSE i

UnescapeChar(c) == IF c = "n" THEN LF ELSE c

RECURSIVE ParseChars(_, _, _)
ParseChars(d, i, acc) ==
    IF d[i] = QT THEN Parsed(acc, i + 1)
    ELSE IF d[i] = BS
    THEN ParseChars(d, i + 2, Append(acc, UnescapeChar(d[i + 1])))
    ELSE ParseChars(d, i + 1, Append(acc, d[i]))

RECURSIVE ParseDigits(_, _, _)
ParseDigits(d, i, acc) ==
    IF i <= Len(d) /\ IsDigit(d[i])
    THEN ParseDigits(d, i + 1, acc * Len(DigitChars) + DigitVal(d[i]))
    ELSE Parsed(acc, i)

\* int(text) when the number has no fraction, float(text) when it has one
ParseNumber(d, i) ==
    LET whole == ParseDigits(d, i, 0)
    IN  IF whole.next <= Len(d) /\ d[whole.next] = "."
        THEN LET frac == ParseDigits(d, whole.next + 1, 0)
             IN  Parsed(JFloat(whole.v * Len(DigitChars) + frac.v), frac.next)
        ELSE Parsed(JInt(whole.v), whole.next)

RECURSIVE ParseValue(_, _), ParseItems(_, _, _, _)
ParseValue(d, i0) ==
    LET i == SkipWs(d, i0)
    IN  CASE d[i] = QT ->
                 LET s == ParseChars(d, i + 1, <<>>)
                 IN  Parsed(JStr(s.v), s.next)
          [] d[i] = "[" ->
                 LET items == ParseItems(d, i + 1, <<>>, FALSE)
                 IN  Parsed(JArr(items.v), items.next)
          [] d[i] = "{" ->
                 LET pairs == ParseItems(d, i + 1, <<>>, TRUE)
                 IN  Parsed(JObj(pairs.v), pairs.next)
          [] d[i] = "t" -> Parsed(JBool(TRUE), i + Len(T_true))
          [] d[i] = "f" -> Parsed(JBool(FALSE), i + Len(T_false))
          [] d[i] = "n" -> Parsed(JNull, i + Len(T_null))
          [] OTHER -> ParseNumber(d, i)
ParseItems(d, i0, acc, keyed) ==
    LET i == SkipWs(d, i0)
    IN  IF d[i] \in {"]", "}"} THEN Parsed(acc, i + 1)
        ELSE IF d[i] = "," THEN ParseItems(d, i + 1, acc, keyed)
        ELSE IF keyed
        THEN LET key == ParseChars(d, i + 1, <<>>)
                 colon == SkipWs(d, key.next)
                 value == ParseValue(d, colon + 1)
             IN  ParseItems(d, value.next, Append(acc, <<key.v, value.v>>), keyed)
        ELSE LET value == ParseValue(d, i)
             IN  ParseItems(d, value.next, Append(acc, value.v), keyed)

\* json.load(f)
Loads(d) == ParseValue(d, 1).v

\* obj[key] of a parsed object
Get(obj, key) ==
    obj.v[CHOOSE i \in 1..Len(obj.v) : obj.v[i][1] = key][2]

K_video_info == <<"v","i","d","e","o","_","i","n","f","o">>
K_video_id == <<"v","i","d","e","o","_","i","d">>
K_url == <<"u","r","l">>
K_title == <<"t","i","t","l","e">>
K_transcript == <<"t","r","a","n","s","c","r","i","p","t">>
K_language == <<"l","a","n","g","u","a","g","e">>
K_is_generated == <<"i","s","_","g","e","n","e","r","a","t","e","d">>
K_word_count == <<"w","o","r","d","_","c","o","u","n","t">>
K_duration_seconds ==
    <<"d","u","r","a","t","i","o","n","_","s","e","c","o","n","d","s">>
K_full_text == <<"f","u","l","l","_","t","e","x","t">>
K_snippets == <<"s","n","i","p","p","e","t","s">>
K_text == <<"t","e","x","t">>
K_start == <<"s","t","a","r","t">>
K_duration == <<"d","u","r","a","t","i","o","n">>
K_metadata == <<"m","e","t","a","d","a","t","a">>
K_generated_at == <<"g","e","n","e","r","a","t","e","d","_","a","t">>
K_content_hash == <<"c","o","n","t","e","n","t","_","h","a","s","h">>

\* _save_as_json, lines 193-218: the dict it dumps (content_hash, the
\* SHA-256 of the full text, is a text of hexadecimal digits; isoformat()
\* of the clock is the text of its reading)
json_data(transcript_data, t) ==
    JObj(<< <<K_video_info,
              JObj(<< <<K_video_id, JStr(transcript_data.video_info.video_id)>>,
                      <<K_url, JStr(transcript_data.video_info.url)>>,
                      <<K_title, JNull>> >>)>>,
            <<K_transcript,
              JObj(<< <<K_language, JStr(transcript_data.language)>>,
                      <<K_is_generated, JBool(transcript_data.is_generated)>>,
                      <<K_word_count, JInt(transcript_data.word_count)>>,
                      <<K_duration_seconds,
                        JFloat(transcript_data.duration_seconds)>>,
                      <<K_full_text, JStr(transcript_data.full_text)>>,
                      <<K_snippets,
                        JArr([i \in 1..Len(transcript_data.snippets) |->
                                JObj(<< <<K_text,
                                          JStr(transcript_data.snippets[i].text)>>,
                                        <<K_start,
                                          JFloat(transcript_data.snippets[i].start)>>,
                                        <<K_duration,
                                          JFloat(transcript_data.snippets[i].duration)>>
                                     >>)])>> >>)>>,
            <<K_metadata,
              JObj(<< <<K_generated_at, JStr(NatToChars(t))>>,
                      <<K_content_hash, JStr(<<"9","f","8","6","d","0">>)>> >>)>>
         >>)

\* The texts of the snippets: plain, with a quote and a backslash followed
\* by n, and of two lines with a letter outside ASCII.
SnippetTexts ==
    { <<"H","i">>,
      <<"a",QT,"b",BS,"n">>,
      <<"c",LF,"é"," ","d">> }

\* The snippets of the captions API: start and duration in tenths of a second.
JsonSnippets ==
    [text : SnippetTexts, start : {0, 15}, duration : {20}]
        \cup [text : {<<"H","i">>}, start : {120}, duration : {5}]

\* str.split() and len: the number of words of a text
RECURSIVE CountWords(_, _)
CountWords(s, inword) ==
    IF s = <<>> THEN 0
    ELSE IF s[1] \in {" ", LF} THEN CountWords(Tail(s), FALSE)
    ELSE (IF inword THEN 0 ELSE 1) + CountWords(Tail(s), TRUE)

\* fetch_transcript, lines 91-103, over texts that are character sequences
RECURSIVE JoinTexts(_)
JoinTexts(snippets) ==
    IF snippets = <<>> THEN <<>>
    ELSE snippets[1].text \o <<" ">> \o JoinTexts(Tail(snippets))

\* The TranscriptData process_transcript hands to the exporter.
JsonPayloads ==
    { [video_info |-> [video_id |-> id, url |-> UrlWatch],
       snippets |-> snippets,
       full_text |-> Strip(JoinTexts(snippets)),
       language |-> language,
       is_generated |-> generated,
       word_count |-> CountWords(JoinTexts(snippets), FALSE),
       duration_seconds |->
           IF snippets # <<>>
           THEN Max({snippets[i].start + snippets[i].duration :
                        i \in 1..Len(snippets)})
           ELSE 0] :
      id \in {VideoA}, language \in {<<"e","n">>, <<"p","t","-","B","R">>},
      generated \in BOOLEAN,
      snippets \in {<<>>} \cup {<<a>> : a \in JsonSnippets}
                   \cup {<<a, b>> : a \in JsonSnippets, b \in JsonSnippets} }

\* The file _save_as_json writes for each payload at each reading of the clock.
JsonFiles ==
    {[payload |-> p, t |-> t, text |-> Dumps(json_data(p, t), 0)] :
        p \in JsonPayloads, t \in 0..MaxTime}

\* _save_as_json(transcript_data, base_filename) writes its file
SaveAsJson(file) ==
    /\ file.t = now
    /\ op' = Returned("_save_as_json", 0, Some(file.text), file.payload)
    /\ UNCHANGED <<tasks, disk, now, nextId, pc, cur, requested, issued, fetches>>
    /\ UNCHANGED envVars

\* json.load of the file that was written last
LoadJson ==
    /\ op.name = "_save_as_json"
    /\ op' = Returned("json.load", 0, Some(Loads(op.ret[1])), op.aux)
    /\ UNCHANGED <<tasks, disk, now, nextId, pc, cur, requested, issued, fetches>>
    /\ UNCHANGED envVars

JsonNext ==
    \/ Tick
    \/ \E file \in JsonFiles : SaveAsJson(file)
    \/ LoadJson

\* The JSON writer and a reader of its files.
JsonSpec == Init /\ [][JsonNext]_vars

----------------------------------------------------------------------------
(* GET /transcripts/ : list_transcripts, with the pagination of             *)
(* validate_pagination, over the registry of the service it is handed.      *)

\* validate_pagination: skip >= 0, 1 <= limit <= 100
Skips == 0..MaxTasks
PageLimits == 1..(MaxTasks + 1)

\* l[start:end] of a list
Slice(l, start, end) ==
    SubSeq(l, start + 1, IF end < Len(l) THEN end ELSE Len(l))

\* list_transcripts, lines 166-172
list_transcripts(service, skip, limit) ==
    Slice(list_tasks(service, limit), skip, skip + limit)

\* GET /transcripts/?skip=..&limit=.. answered by a handler whose service
\* holds the tasks created so far
ListTranscripts(skip, limit) ==
    /\ pc = "idle"
    /\ op' = Returned("GET /transcripts/", 0,
                      list_transcripts(tasks, skip, limit),
                      [skip |-> skip, limit |-> limit])
    /\ UNCHANGED <<tasks, disk, now, nextId, pc, cur, requested, issued, fetches>>
    /\ UNCHANGED envVars

PageNext ==
    \/ Tick
    \/ \E request \in Requests : create_transcript_task(request)
    \/ \E task_id \in TaskIds : DeleteMissing(task_id)
    \/ \E task_id \in TaskIds : DeleteTask(task_id)
    \/ \E skip \in Skips, limit \in PageLimits : ListTranscripts(skip, limit)

\* Tasks are created and deleted, and the list is asked for page by page.
PageSpec == Init /\ [][PageNext]_vars

----------------------------------------------------------------------------
(* app/tasks/transcription_tasks.py: the queue task process_transcript_async *)
(* beside the service that creates the tasks.  Here `tasks` is the registry  *)
(* of the service the tasks are created in.                                  *)

\* process_transcript_async, line 62: the registry of the
\* TranscriptionService() the queue task builds for itself
queue_service == NewRegistry

\* process_transcript_async(task_id, request_data): process_transcript of
\* the queue task's own service raises ValueError for a task that is not in
\* its registry (transcription_service.py lines 55-56), and the except
\* clause of the queue task raises it on (lines 89-103)
process_transcript_async(task_id, request) ==
    /\ pc = "idle"
    /\ task_id \notin DOMAIN queue_service
    /\ op' = Raised("process_transcript_async", task_id, "Task not found",
                    [state |-> "FAILURE"])
    /\ UNCHANGED <<tasks, disk, now, nextId, pc, cur, requested, issued, fetches>>
    /\ UNCHANGED envVars

QueueNext ==
    \/ Tick
    \/ \E request \in Requests : create_transcript_task(request)
    \/ \E task_id \in TaskIds : GetTaskStatus(task_id)
    \/ \E task_id \in TaskIds : DeleteTask(task_id)
    \/ \E task_id \in TaskIds, request \in ProcessRequests :
          process_transcript_async(task_id, request)

\* Tasks are created, and the queue runs process_transcript_async on them.
QueueSpec == Init /\ [][QueueNext]_vars

----------------------------------------------------------------------------
(* The properties. *)

\* A step in which the call `name` returns or raises: only the clock's
\* steps leave op as it is while no process_transcript call is in progress.
CallStep(name) ==
    pc = "idle" /\ pc' = "idle" /\ now' = now /\ op'.name = name

\* The step in which a process_transcript call on a task of the registry ends.
ProcessEnds == pc # "idle" /\ pc' = "idle"

\* The urls of the model that extract_video_id rejects.
RejectedUrls == {url \in Urls : extract_video_id(url).raised}

\* C1: process_transcript on a task of the registry never raises: whichever
\* step fails, it ends by returning the task's record, whose status is then
\* completed or failed.
C1_ProcessReturnsRecord ==
    [][ProcessEnds =>
          /\ op'.name = "process"
          /\ op'.task_id = cur.task_id
          /\ ~op'.raised
          /\ op'.ret = Some(tasks'[cur.task_id])
          /\ tasks'[cur.task_id].task_id = cur.task_id
          /\ tasks'[cur.task_id].status \in {"completed", "failed"}]_vars

\* C1, witness: a call whose export failed has returned the failed record.
C1_ExportFailureReturned ==
    /\ op.name = "process"
    /\ ~op.raised
    /\ op.ret # None
    /\ op.ret[1].status = "failed"
    /\ op.ret[1].error_message = Some("[Errno 28] No space left on device")

\* C2 (as claimed): a record's status changes only along pending ->
\* processing -> completed or processing -> failed, so that completed and
\* failed are terminal, whatever is called.
C2_StatusLifecycle ==
    [][\A id \in DOMAIN tasks \cap DOMAIN tasks' :
          \/ tasks'[id].status = tasks[id].status
          \/ <<tasks[id].status, tasks'[id].status>> \in
                { <<"pending", "processing">>,
                  <<"processing", "completed">>,
                  <<"processing", "failed">> }]_vars

\* C3 (as claimed): every failed record has a non-empty error message and
\* no files.
C3_FailedHasErrorNoFiles ==
    \A id \in DOMAIN tasks :
        tasks[id].status = "failed" =>
            /\ tasks[id].error_message # None
            /\ tasks[id].error_message # Some("")
            /\ tasks[id].files = <<>>

\* The extensions of the files a record lists.
ExtsOf(files) == {files[i].filename.ext : i \in 1..Len(files)}

\* C4: every completed record lists the files of the format requested: one
\* .txt for txt, one .pdf for pdf, one .json for json, and two files, a .txt
\* and a .pdf, for both.
C4_CompletedFilesMatchFormat ==
    \A id \in DOMAIN tasks :
        tasks[id].status = "completed" =>
            LET files == tasks[id].files
            IN  /\ Len(files) >= 1
                /\ \A i \in 1..Len(files) :
                      files[i].format = files[i].filename.ext
                /\ CASE requested[id] = "both" ->
                            Len(files) = 2 /\ ExtsOf(files) = {"txt", "pdf"}
                     [] OTHER ->
                            Len(files) = 1 /\ ExtsOf(files) = {requested[id]}

\* C4, witness: a task asked for in both formats is completed.
C4_CompletedBoth ==
    \E id \in DOMAIN tasks :
        /\ tasks[id].status = "completed"
        /\ requested[id] = "both"
        /\ Len(tasks[id].files) = 2

\* C5 (as claimed): a task an HTTP request has created is returned by every
\* later GET of it, until a DELETE removes it.
C5_IssuedTaskIsFound ==
    (/\ op.name \in {"GET /transcripts/{task_id}",
                     "GET /transcripts/{task_id}/status"}
     /\ op.task_id \in issued)
        => op.ret[1] = 200

\* C6: get_task_status called right after create_transcript_task, on the id
\* it returned, returns a pending record with no payload, no files, no error
\* and no completed_at.
C6_CreateThenGet ==
    [][\A id \in TaskIds :
          (/\ op.name = "create"
           /\ ~op.raised
           /\ op.task_id = id
           /\ CallStep("get")
           /\ op'.task_id = id)
              => /\ op'.ret # None
                 /\ op'.ret[1].task_id = id
                 /\ op'.ret[1].status = "pending"
                 /\ op'.ret[1].transcript_data = None
                 /\ op'.ret[1].files = <<>>
                 /\ op'.ret[1].error_message = None
                 /\ op'.ret[1].completed_at = None]_vars

\* C6, witness: get has returned the pending record of the one task
\* created, and nothing has been processed or deleted.
C6_GotPendingRecord ==
    /\ op.name = "get"
    /\ op.ret # None
    /\ op.ret[1].status = "pending"
    /\ nextId = 1
    /\ fetches = 0
    /\ DOMAIN tasks = {op.task_id}

\* C7: process_transcript on a task id that is not in the registry raises
\* the task-not-found error and changes neither the registry nor the output
\* directory; a fetch (and the export after it) is only ever started for a
\* task of the registry.
C7_ProcessMissingTask ==
    [][/\ \A id \in TaskIds :
             (CallStep("process") /\ op'.task_id = id /\ id \notin DOMAIN tasks)
                => /\ op'.raised
                   /\ op'.error = "Task not found"
                   /\ tasks' = tasks
                   /\ disk' = disk
                   /\ fetches' = fetches
       /\ (pc = "idle" /\ pc' # "idle") =>
             /\ cur'.task_id \in DOMAIN tasks
             /\ fetches' = fetches + 1]_vars

\* C7, witness: the call has raised with a task and a file in place.
C7_RaisedNotFound ==
    /\ op.name = "process"
    /\ op.raised
    /\ op.task_id \notin DOMAIN tasks
    /\ DOMAIN tasks # {}
    /\ disk # {}

\* C8: delete_task on a task id that is not in the registry returns False
\* and changes nothing; on a task of the registry it returns True and the
\* task is absent afterwards, also when unlinking its files fails.
C8_DeleteTask ==
    [][\A id \in TaskIds :
          (CallStep("delete") /\ op'.task_id = id)
             => IF id \in DOMAIN tasks
                THEN /\ ~op'.raised
                     /\ op'.ret = Some(TRUE)
                     /\ get_task_status(tasks', id) = None
                     /\ \A other \in DOMAIN tasks \ {id} :
                            get_task_status(tasks', other) = Some(tasks[other])
                ELSE /\ ~op'.raised
                     /\ op'.ret = Some(FALSE)
                     /\ tasks' = tasks
                     /\ disk' = disk]_vars

\* C8, witness: a task is deleted although a file of it could not be.
C8_DeletedThoughUnlinkFailed ==
    /\ op.name = "delete"
    /\ op.ret = Some(TRUE)
    /\ op.aux.unlink_fails # {}
    /\ op.task_id \notin DOMAIN tasks

\* C9 (as claimed): after delete_task returns True, none of the files the
\* task listed is in the output directory.
C9_FilesGoneAfterDelete ==
    [][\A id \in TaskIds :
          (CallStep("delete") /\ op'.task_id = id /\ op'.ret = Some(TRUE))
             => PathsOf(tasks[id].files) \cap disk' = {}]_vars

\* C9 (amended): after delete_task returns True, the files the task listed
\* that are still in the output directory are those whose unlink failed.
C9_FilesGoneUnlessUnlinkFailed ==
    [][\A id \in TaskIds :
          (CallStep("delete") /\ op'.task_id = id /\ op'.ret = Some(TRUE))
             => PathsOf(tasks[id].files) \cap disk' = op'.aux.unlink_fails]_vars

\* C9, witness: a task with files is deleted and none of them is left.
C9_DeletedWithFiles ==
    /\ op.name = "delete"
    /\ op.ret = Some(TRUE)
    /\ op.aux.files # {}
    /\ op.aux.unlink_fails = {}
    /\ op.aux.files \cap disk = {}

\* C10: create_transcript_task with a url the extractor accepts takes an id
\* that is not in the registry, adds one pending record under it and leaves
\* the other records as they are, also when a task of the same video is
\* there; with a url the extractor rejects it adds nothing.
C10_CreateAddsOneRecord ==
    [][CallStep("create") =>
          IF op'.aux \in RejectedUrls
          THEN op'.raised /\ tasks' = tasks
          ELSE /\ ~op'.raised
               /\ op'.ret = Some(op'.task_id)
               /\ op'.task_id \notin DOMAIN tasks
               /\ DOMAIN tasks' = DOMAIN tasks \cup {op'.task_id}
               /\ tasks'[op'.task_id].task_id = op'.task_id
               /\ tasks'[op'.task_id].status = "pending"
               /\ \A other \in DOMAIN tasks : tasks'[other] = tasks[other]]_vars

\* C10, witness: a second task of a video is created beside the first.
C10_DuplicateVideo ==
    /\ op.name = "create"
    /\ ~op.raised
    /\ \E other \in DOMAIN tasks \ {op.task_id} :
          /\ op.task_id \in DOMAIN tasks
          /\ tasks[other].video_info.video_id =
                tasks[op.task_id].video_info.video_id
          /\ tasks[op.task_id].status = "pending"

\* C11: list_tasks(limit) returns min(limit, number of tasks) records of
\* the registry, each once, newest created first, none of the tasks left out
\* newer than one returned; the registry is as before.
C11_ListNewestFirst ==
    [][CallStep("list") =>
          LET l == op'.ret
              limit == op'.aux
              n == Cardinality(DOMAIN tasks)
              listed == {l[i].task_id : i \in 1..Len(l)}
          IN  /\ ~op'.raised
              /\ Len(l) = (IF limit < n THEN limit ELSE n)
              /\ \A i \in 1..Len(l) :
                    /\ l[i].task_id \in DOMAIN tasks
                    /\ l[i] = tasks[l[i].task_id]
              /\ Cardinality(listed) = Len(l)
              /\ \A i, j \in 1..Len(l) :
                    i < j => l[i].created_at >= l[j].created_at
              /\ \A id \in DOMAIN tasks \ listed, i \in 1..Len(l) :
                    tasks[id].created_at <= l[i].created_at
              /\ tasks' = tasks]_vars

\* C11, witness: of two tasks created at different times, list_tasks(1) has
\* returned the later one.
C11_ListedLaterOfTwo ==
    /\ op.name = "list"
    /\ op.aux = 1
    /\ Len(op.ret) = 1
    /\ \E id \in DOMAIN tasks :
          /\ id # op.ret[1].task_id
          /\ tasks[id].created_at < op.ret[1].created_at


\* The step in which a save_transcript call raises: one of its writers
\* failed, process_transcript records the failure and returns.
SaveRaises == pc \in {"txt", "pdf", "json"} /\ ProcessEnds

\* C12 (as claimed): when save_transcript raises, none of the files the
\* call created (those it had written and the one it was writing, unless it
\* was there before the call) is in the output directory afterwards.
C12_NoFileLeftByFailedExport ==
    [][SaveRaises =>
          ((PathsOf(cur.files) \cup {CurPath}) \ cur.before) \cap disk' = {}]_vars


\* The step in which a writer of save_transcript has written its file.
FileWritten ==
    /\ pc \in {"txt", "pdf", "json"}
    /\ Len(cur'.files) = Len(cur.files) + 1

\* C13 (as claimed): the timestamp makes the file names unique: no writer
\* writes to a path that is already in the output directory, and no path is
\* listed in the records of two tasks.
C13_ExportPathsUnique ==
    [][/\ FileWritten => CurPath \notin disk
       /\ \A a, b \in DOMAIN tasks' :
             a # b => PathsOf(tasks'[a].files) \cap PathsOf(tasks'[b].files) = {}]_vars


\* C14 (as claimed): when every unlink succeeds, cleanup_old_files(days_old)
\* deletes the files whose modification time is more than days_old * 86400
\* seconds before now, and leaves every other file as it is.
C14_CleanupDeletesExactlyOld ==
    [][(CallStep("cleanup") /\ op'.aux.unlink_fails = {}) =>
          LET old == {f \in DOMAIN mtime :
                        mtime[f] < now - (op'.aux.days_old * SecondsPerDay)}
          IN  mtime' = Without(mtime, old)]_vars

\* C15: cleanup_old_files does not raise when unlink does: each file older
\* than its cutoff is unlinked, those whose unlink raised are still there,
\* and the count it returns is the number of files that are gone.
C15_CleanupCountsRemoved ==
    [][CallStep("cleanup") =>
          LET old == old_files(mtime, cutoff_time(now, utcoffset, op'.aux.days_old))
              gone == DOMAIN mtime \ DOMAIN mtime'
          IN  /\ ~op'.raised
              /\ op'.ret = Some(Cardinality(gone))
              /\ gone = old \ op'.aux.unlink_fails
              /\ \A f \in DOMAIN mtime' : f \in DOMAIN mtime /\ mtime'[f] = mtime[f]]_vars

\* C15, witness: a cleanup has removed one file and failed on another.
C15_RemovedOneFailedOne ==
    /\ op.name = "cleanup"
    /\ op.ret = Some(1)
    /\ op.aux.unlink_fails # {}
    /\ op.aux.unlink_fails \subseteq DOMAIN mtime


\* The requests `client` was allowed that are inside the window at time t.
AllowedInWindow(client, t) ==
    IF client \in DOMAIN client_log
    THEN Len(Recent(client_log[client], t - (window_minutes * 60)))
    ELSE 0

\* C16 (as claimed): once max_requests allowed requests of a client are
\* inside the window, every further request of that client is answered 429,
\* so that no client is allowed more than max_requests requests in a window.
C16_ClientLimitedPerWindow ==
    [][CallStep("check_rate_limit") =>
          /\ AllowedInWindow(op'.aux.client, now) >= max_requests
                => op'.ret = Some(429)
          /\ \A c \in Clients : AllowedInWindow(c, now)' <= max_requests]_vars

\* C17 (as claimed): a request is rejected only on account of the requests
\* of the client that sent it, and requests are counted under the same
\* client_id exactly when the same client sent them.
C17_LimitIsPerClient ==
    [][CallStep("check_rate_limit") =>
          /\ op'.ret = Some(429)
                => AllowedInWindow(op'.aux.client, now) >= max_requests
          /\ op.name = "check_rate_limit"
                => ((op.aux.client = op'.aux.client)
                       <=> (op.aux.client_id = op'.aux.client_id))]_vars


\* The routes that take a video url.
UrlRoutes ==
    {"POST /transcripts/", "POST /transcripts/async", "POST /transcripts/quick",
     "GET /transcripts/info/video"}

\* C18 (as claimed): an extraction error or a fetch error raised while a
\* route that takes a video url handles a request is answered with a 4xx
\* status and a body that holds error and message.
C18_UrlErrorsAnswered4xx ==
    (op.name \in UrlRoutes /\ op.aux.kind \in {"extraction", "fetch"}) =>
        /\ op.ret[1] \in 400..499
        /\ op.ret[2] # None
        /\ {"error", "message"} \subseteq DOMAIN op.ret[2][1]

\* C19 (as claimed): with the debug flag off, the message of a 500 answer
\* given for an exception does not hold the text of the exception.
C19_GenericMessageUnlessDebug ==
    (/\ ~debug
     /\ op.name \in UrlRoutes
     /\ op.ret[1] = 500
     /\ op.aux.kind # "none") =>
        \A i \in 1..Len(op.ret[2][1].message) :
            op.ret[2][1].message[i] # op.aux.text


\* C20 (as claimed): GET /files/stats is handed to get_file_stats and is
\* answered 200 with a body that holds total_files, total_size_bytes and
\* file_types, whatever is in the output directory.
C20_StatsRouteAnswersStats ==
    op.name = "GET /files/stats" =>
        /\ op.aux.endpoint = "get_file_stats"
        /\ op.ret[1] = 200
        /\ {"total_files", "total_size_bytes", "file_types"}
              \subseteq DOMAIN op.ret[2][1]


\* The video id a call of extract_video_id or get_video_info returned.
ReturnedId ==
    IF op.name = "get_video_info" THEN op.ret[1].video_id ELSE op.ret[1]

\* The calls of the extractor.
ExtractorCalls == {"extract_video_id", "get_video_info"}

\* C21 (as claimed): for a url of a video-platform host in one of the
\* shapes (short link, watch with the query parameter v, embed) whose id
\* segment has 11 characters, followed by nothing or by a suffix that
\* starts with ? or &, the extractor returns that id.
C21_RecognizedUrlYieldsId ==
    (/\ op.name \in ExtractorCalls
     /\ op.aux.parts.host \in youtube_domains
     /\ Len(op.aux.parts.id) = VideoIdLen)
        => ~op.raised /\ ReturnedId = op.aux.parts.id

\* The errors the extractor rejects a url with.
InvalidUrlErrors ==
    {"400: Invalid YouTube URL provided", "400: Invalid YouTube URL",
     "400: Unable to extract video ID from URL", "400: Invalid YouTube video ID"}

\* C22 (as claimed): for a url whose host is not a video-platform domain,
\* and for a url whose extracted segment does not have 11 characters, the
\* extractor raises the 400 error and returns no id.
C22_ForeignOrBadIdRejected ==
    (/\ op.name \in ExtractorCalls
     /\ \/ op.aux.parts.host \notin youtube_domains
        \/ op.aux.segment = None
        \/ Len(op.aux.segment[1]) # VideoIdLen)
        => /\ op.raised
           /\ op.error \in InvalidUrlErrors
           /\ op.ret = None


ParsedSnippets(transcript) ==
    LET items == Get(transcript, K_snippets).v
    IN  [i \in 1..Len(items) |->
            [text |-> Get(items[i], K_text).v,
             start |-> Get(items[i], K_start).v,
             duration |-> Get(items[i], K_duration).v]]

\* C24: json.load of the file _save_as_json wrote for a payload gives back
\* the payload's video id, language and word count, and its snippets, each
\* with its text, start and duration, in their order.
C24_JsonRoundTrip ==
    op.name = "json.load" =>
        LET data == op.ret[1]
            transcript == Get(data, K_transcript)
        IN  /\ Get(Get(data, K_video_info), K_video_id) =
                  JStr(op.aux.video_info.video_id)
            /\ Get(transcript, K_language) = JStr(op.aux.language)
            /\ Get(transcript, K_word_count) = JInt(op.aux.word_count)
            /\ ParsedSnippets(transcript) = op.aux.snippets
            /\ \A i \in 1..Len(op.aux.snippets) :
                  /\ Get(Get(transcript, K_snippets).v[i], K_start).t = "float"
                  /\ Get(Get(transcript, K_snippets).v[i], K_duration).t = "float"

\* C24, witness: a file of two snippets was read back, one of them with a
\* quote and a backslash in its text, the other of two lines.
C24_ReadBackEscapedTexts ==
    /\ op.name = "json.load"
    /\ Len(op.aux.snippets) = 2
    /\ op.aux.snippets[1].text = <<"a",QT,"b",BS,"n">>
    /\ op.aux.snippets[2].text = <<"c",LF,"é"," ","d">>
    /\ op.aux.snippets[2].start = 15


\* C25 (as claimed): GET /transcripts/ with skip and limit returns the
\* records at the positions skip .. skip + limit - 1 of the tasks of the
\* registry ordered newest first.
C25_PageOfNewestFirst ==
    [][CallStep("GET /transcripts/") =>
          op'.ret = Slice(SortDesc(Values(tasks, 1)),
                          op'.aux.skip, op'.aux.skip + op'.aux.limit)]_vars


\* C26 (as claimed): process_transcript_async called with the id of a task
\* that create_transcript_task has registered does not raise "Task not
\* found": it processes the task and returns the status SUCCESS with the
\* task's record.
C26_QueueTaskProcesses ==
    [][(CallStep("process_transcript_async") /\ op'.task_id \in DOMAIN tasks) =>
          /\ ~op'.raised
          /\ op'.ret # None
          /\ op'.ret[1].status = "SUCCESS"
          /\ op'.ret[1].result.task_id = op'.task_id]_vars


\* The task a step of a process_transcript call works on.
ProcessedTask == IF pc = "idle" THEN cur'.task_id ELSE cur.task_id

\* The files the records of the tasks other than `task_id` list.
FilesOfOthers(task_id) ==
    UNION {PathsOf(tasks[other].files) : other \in DOMAIN tasks \ {task_id}}

\* C27 (as claimed): each step of a process_transcript call on a task
\* leaves the set of task ids and the record of every other task as they
\* are, and neither creates, overwrites nor deletes a file that the record
\* of another task lists.
C27_ProcessTouchesOnlyItsTask ==
    [][(pc # "idle" \/ pc' # "idle") =>
          /\ DOMAIN tasks' = DOMAIN tasks
          /\ \A other \in DOMAIN tasks \ {ProcessedTask} :
                tasks'[other] = tasks[other]
          /\ (disk \ disk') \cap FilesOfOthers(ProcessedTask) = {}
          /\ (disk' \ disk) \cap FilesOfOthers(ProcessedTask) = {}
          /\ FileWritten => CurPath \notin FilesOfOthers(ProcessedTask)]_vars


\* C28 (as claimed): in every state of the registry the fields of a record
\* agree with its status: pending, no payload, no files, no error and no
\* completed_at; completed, payload and completed_at set and no error;
\* failed, completed_at set and no payload.
C28_FieldsAgreeWithStatus ==
    \A id \in DOMAIN tasks :
        LET r == tasks[id]
        IN  /\ r.status = "pending" =>
                  /\ r.transcript_data = None
                  /\ r.files = <<>>
                  /\ r.error_message = None
                  /\ r.completed_at = None
            /\ r.status = "completed" =>
                  /\ r.transcript_data # None
                  /\ r.completed_at # None
                  /\ r.error_message = None
            /\ r.status = "failed" =>
                  /\ r.completed_at # None
                  /\ r.transcript_data = None


\* The files the records of the registry list.
ListedFiles == UNION {PathsOf(tasks[id].files) : id \in DOMAIN tasks}

\* C29 (as claimed): between the calls, every file of the output directory
\* is listed in the record of a task of the registry.
C29_NoOrphanedExport ==
    pc = "idle" => disk \subseteq ListedFiles


\* C30 (as claimed): a request that is answered 429 is not recorded, and a
\* client is let in whenever fewer than max_requests of the requests it was
\* allowed are inside the window, whatever was rejected before.
C30_RejectionNotRecorded ==
    [][CallStep("check_rate_limit") =>
          /\ op'.ret = Some(429) =>
                /\ client_log' = client_log
                /\ rate_requests'[op'.aux.client_id] =
                      cleaned(rate_requests, op'.aux.client_id, now)
          /\ AllowedInWindow(op'.aux.client, now) < max_requests =>
                op'.ret = Some(200)]_vars

=============================================================================
